---- MODULE Spec2Model ----
(***************************************************************************)
(* Model of three expression nodes of the remap language:                  *)
(*   Not            lib/remap-lang/src/expression/not.rs                   *)
(*   IpSubnetFn     src/remap/function/ip_subnet.rs                        *)
(*   OnlyFieldsFn   src/remap/function/only_fields.rs                      *)
(*                                                                         *)
(* Text is a sequence of one-character strings.  A byte string (the        *)
(* payload of Value::String) is a sequence of tokens, one per encoded      *)
(* character, plus the token "0xFF" for a byte that is not valid UTF-8.    *)
(* A u32 is kept as two 16-bit limbs [hi, lo] so that its full width is    *)
(* represented.                                                            *)
(***************************************************************************)
EXTENDS Integers, Sequences, FiniteSets, TLC

(***************************************************************************)
(* Bounds of the model.                                                    *)
(***************************************************************************)
\* prefix specifiers "/0" .. "/MaxPrefix" are enumerated as subnet operands
MaxPrefix == 130
\* the compiled only_fields node is executed at most this many times on a record
MaxRuns == 2
\* only_fields is compiled with 1 .. MaxPaths retained paths
MaxPaths == 2

(***************************************************************************)
(* Characters and numerals.                                                *)
(***************************************************************************)
Digits == <<"0", "1", "2", "3", "4", "5", "6", "7", "8", "9">>

HexLower == <<"0", "1", "2", "3", "4", "5", "6", "7", "8", "9",
              "a", "b", "c", "d", "e", "f">>

HexUpper == <<"0", "1", "2", "3", "4", "5", "6", "7", "8", "9",
              "A", "B", "C", "D", "E", "F">>

Range(s) == {s[i] : i \in 1..Len(s)}

IsAsciiDigit(c) == c \in Range(Digits)

\* a decimal digit of another script (ARABIC-INDIC DIGIT THREE): in the Unicode
\* class Nd, so the regex class \d matches it, but it is no ASCII digit
ArabicThree == "U+0663"

\* the \d of the regex crate is Unicode-aware: it matches every character of class Nd
IsRegexDigit(c) == IsAsciiDigit(c) \/ c = ArabicThree

IsHexDigit(c) == c \in Range(HexLower) \cup Range(HexUpper)

DigitVal(c) == (CHOOSE i \in 1..10 : Digits[i] = c) - 1

HexVal(c) ==
    IF c \in Range(HexLower) THEN (CHOOSE i \in 1..16 : HexLower[i] = c) - 1
    ELSE (CHOOSE i \in 1..16 : HexUpper[i] = c) - 1

Min(a, b) == IF a < b THEN a ELSE b

RECURSIVE Pow2(_)
Pow2(n) == IF n = 0 THEN 1 ELSE 2 * Pow2(n - 1)

\* decimal numeral of a natural number, as Display for integers prints it
RECURSIVE DecStr(_)
DecStr(n) == IF n < 10 THEN <<Digits[n + 1]>>
             ELSE DecStr(n \div 10) \o <<Digits[(n % 10) + 1]>>

\* lower-case hexadecimal numeral without leading zeros ({:x})
RECURSIVE HexStr(_)
HexStr(n) == IF n < 16 THEN <<HexLower[n + 1]>>
             ELSE HexStr(n \div 16) \o <<HexLower[(n % 16) + 1]>>

\* String::from_utf8_lossy: a byte that is not valid UTF-8 becomes U+FFFD
FromUtf8Lossy(bytes) ==
    [i \in 1..Len(bytes) |-> IF bytes[i] = "0xFF" THEN "U+FFFD" ELSE bytes[i]]

\* str::starts_with on character sequences
StartsWith(s, p) == Len(p) <= Len(s) /\ SubSeq(s, 1, Len(p)) = p

\* the fields of s between occurrences of the separator
RECURSIVE SplitFrom(_, _, _, _)
SplitFrom(s, sep, i, cur) ==
    IF i > Len(s) THEN <<cur>>
    ELSE IF s[i] = sep THEN <<cur>> \o SplitFrom(s, sep, i + 1, <<>>)
    ELSE SplitFrom(s, sep, i + 1, Append(cur, s[i]))

Split(s, sep) == SplitFrom(s, sep, 1, <<>>)

RECURSIVE Join(_, _)
Join(parts, sep) ==
    IF Len(parts) = 0 THEN <<>>
    ELSE IF Len(parts) = 1 THEN parts[1]
    ELSE parts[1] \o <<sep>> \o Join(Tail(parts), sep)

RECURSIVE Flatten(_)
Flatten(ss) == IF Len(ss) = 0 THEN <<>> ELSE ss[1] \o Flatten(Tail(ss))

(***************************************************************************)
(* Unsigned 32-bit integers as two 16-bit limbs.                           *)
(***************************************************************************)
U32(h, l) == [hi |-> h, lo |-> l]

\* u32 comparison x > n for a small constant n
U32Gt(x, n) == x.hi > 0 \/ x.lo > n

\* bitwise AND of two naturals below 2^w
RECURSIVE BitAnd(_, _, _)
BitAnd(a, b, w) ==
    IF w = 0 THEN 0
    ELSE 2 * BitAnd(a \div 2, b \div 2, w - 1) + (IF a % 2 = 1 /\ b % 2 = 1 THEN 1 ELSE 0)

U32And(x, y) == U32(BitAnd(x.hi, y.hi, 16), BitAnd(x.lo, y.lo, 16))

\* <u32 as FromStr>::from_str on a digit accumulator: acc * 10 + d, checked
RECURSIVE ParseU32From(_, _, _)
ParseU32From(s, i, acc) ==
    IF i > Len(s) THEN [ok |-> TRUE, val |-> acc]
    ELSE IF ~IsAsciiDigit(s[i]) THEN [ok |-> FALSE, val |-> U32(0, 0)]
    ELSE LET lo10 == acc.lo * 10 + DigitVal(s[i])
             hi10 == acc.hi * 10 + (lo10 \div 65536)
         IN IF hi10 >= 65536 THEN [ok |-> FALSE, val |-> U32(0, 0)]
            ELSE ParseU32From(s, i + 1, U32(hi10, lo10 % 65536))

\* str::parse::<u32>: an optional plus sign, then one or more ASCII digits, no overflow
ParseU32(s) ==
    LET body == IF Len(s) > 0 /\ s[1] = "+" THEN Tail(s) ELSE s
    IN IF Len(body) = 0 THEN [ok |-> FALSE, val |-> U32(0, 0)]
       ELSE ParseU32From(body, 1, U32(0, 0))

(***************************************************************************)
(* IP addresses: std::net::IpAddr, its FromStr and its Display.            *)
(* An address is [fam, oct]: the family (4 or 6) and its 4 or 16 octets.   *)
(***************************************************************************)
IpV4(o) == [fam |-> 4, oct |-> o]

IpV6(o) == [fam |-> 6, oct |-> o]

NoAddr == [fam |-> 0, oct |-> <<>>]

RECURSIVE DecVal(_)
DecVal(p) == IF Len(p) = 0 THEN 0
             ELSE DecVal(SubSeq(p, 1, Len(p) - 1)) * 10 + DigitVal(p[Len(p)])

RECURSIVE HexNum(_)
HexNum(p) == IF Len(p) = 0 THEN 0
             ELSE HexNum(SubSeq(p, 1, Len(p) - 1)) * 16 + HexVal(p[Len(p)])

\* one dotted-quad field: up to three ASCII digits, no zero prefix, at most 255
IsV4Field(p) ==
    /\ Len(p) \in 1..3
    /\ \A i \in 1..Len(p) : IsAsciiDigit(p[i])
    /\ (Len(p) > 1 => p[1] # "0")
    /\ DecVal(p) <= 255

\* <Ipv4Addr as FromStr>::from_str
ParseIpv4(s) ==
    LET parts == Split(s, ".")
    IN IF Len(parts) = 4 /\ \A i \in 1..4 : IsV4Field(parts[i])
       THEN [ok |-> TRUE, ip |-> IpV4([i \in 1..4 |-> DecVal(parts[i])])]
       ELSE [ok |-> FALSE, ip |-> NoAddr]

\* one group of an IPv6 address: one to four hexadecimal digits
IsV6Group(p) == Len(p) \in 1..4 /\ \A i \in 1..Len(p) : IsHexDigit(p[i])

HasDoubleColon(s) == \E i \in 1..(Len(s) - 1) : s[i] = ":" /\ s[i + 1] = ":"

FirstDoubleColon(s) ==
    CHOOSE i \in 1..(Len(s) - 1) :
        /\ s[i] = ":" /\ s[i + 1] = ":"
        /\ \A j \in 1..(i - 1) : ~(s[j] = ":" /\ s[j + 1] = ":")

V6Groups(s) == IF Len(s) = 0 THEN <<>> ELSE Split(s, ":")

\* fields separated by colons are hexadecimal groups; where allowV4 holds the
\* last field may be an embedded dotted quad instead
V6GroupsOk(g, allowV4) ==
    /\ \A i \in 1..(Len(g) - 1) : IsV6Group(g[i])
    /\ Len(g) > 0 => (IsV6Group(g[Len(g)]) \/ (allowV4 /\ ParseIpv4(g[Len(g)]).ok))

V6EndsInV4(g) == Len(g) > 0 /\ ~IsV6Group(g[Len(g)])

\* number of 16-bit groups the fields stand for
V6Size(g) == Len(g) + (IF V6EndsInV4(g) THEN 1 ELSE 0)

V6GroupOctets(p) ==
    IF IsV6Group(p) THEN <<HexNum(p) \div 256, HexNum(p) % 256>>
    ELSE ParseIpv4(p).ip.oct

V6Octets(g) == Flatten([i \in 1..Len(g) |-> V6GroupOctets(g[i])])

Zeros(n) == [i \in 1..n |-> 0]

\* <Ipv6Addr as FromStr>::from_str
ParseIpv6(s) ==
    IF HasDoubleColon(s)
    THEN LET i == FirstDoubleColon(s)
             head == V6Groups(SubSeq(s, 1, i - 1))
             tail == V6Groups(SubSeq(s, i + 2, Len(s)))
         IN IF /\ V6GroupsOk(head, FALSE)
               /\ V6GroupsOk(tail, TRUE)
               /\ V6Size(head) + V6Size(tail) <= 7
            THEN [ok |-> TRUE,
                  ip |-> IpV6(V6Octets(head)
                              \o Zeros(2 * (8 - V6Size(head) - V6Size(tail)))
                              \o V6Octets(tail))]
            ELSE [ok |-> FALSE, ip |-> NoAddr]
    ELSE LET g == V6Groups(s)
         IN IF V6GroupsOk(g, TRUE) /\ V6Size(g) = 8
            THEN [ok |-> TRUE, ip |-> IpV6(V6Octets(g))]
            ELSE [ok |-> FALSE, ip |-> NoAddr]

\* <IpAddr as FromStr>::from_str: an IPv4 address, else an IPv6 address
ParseIp(s) == IF ParseIpv4(s).ok THEN ParseIpv4(s) ELSE ParseIpv6(s)

\* <Ipv4Addr as Display>::fmt
FormatIpv4(o) == Join([i \in 1..4 |-> DecStr(o[i])], ".")

\* Ipv6Addr::segments
Segments(o) == [i \in 1..8 |-> o[2 * i - 1] * 256 + o[2 * i]]

RECURSIVE ZeroRun(_, _)
ZeroRun(segs, i) ==
    IF i > Len(segs) \/ segs[i] # 0 THEN 0 ELSE 1 + ZeroRun(segs, i + 1)

\* start of the first longest run of zero segments
LongestZeroStart(segs) ==
    CHOOSE i \in 1..8 :
        /\ \A j \in 1..8 : ZeroRun(segs, j) <= ZeroRun(segs, i)
        /\ \A j \in 1..(i - 1) : ZeroRun(segs, j) < ZeroRun(segs, i)

HexGroups(segs, from, to) ==
    Join([i \in 1..(to - from + 1) |-> HexStr(segs[from + i - 1])], ":")

\* <Ipv6Addr as Display>::fmt
FormatIpv6(o) ==
    LET segs == Segments(o)
        start == LongestZeroStart(segs)
        run == ZeroRun(segs, start)
    IN IF \A i \in 1..5 : segs[i] = 0 /\ segs[6] = 65535
       THEN <<":", ":", "f", "f", "f", "f", ":">> \o FormatIpv4(SubSeq(o, 13, 16))
       ELSE IF run > 1
       THEN HexGroups(segs, 1, start - 1) \o <<":", ":">> \o HexGroups(segs, start + run, 8)
       ELSE HexGroups(segs, 1, 8)

\* <IpAddr as Display>::fmt, reached through to_string()
FormatIp(ip) == IF ip.fam = 4 THEN FormatIpv4(ip.oct) ELSE FormatIpv6(ip.oct)

(***************************************************************************)
(* Values, results of execute, and TypeDefs.                               *)
(***************************************************************************)
Kinds == {"String", "Boolean", "Null"}

VString(bytes) == [kind |-> "String", b |-> FALSE, s |-> bytes]

VBoolean(x) == [kind |-> "Boolean", b |-> x, s |-> <<>>]

VNull == [kind |-> "Null", b |-> FALSE, s |-> <<>>]

\* Result<Value>: Ok(value) or Err(cause); "panic" is an abort of the thread
Ok(v) == [res |-> "ok", val |-> v, msg |-> ""]

Err(m) == [res |-> "err", val |-> VNull, msg |-> m]

Panic(m) == [res |-> "panic", val |-> VNull, msg |-> m]

TypeDef(f, o, k) == [fallible |-> f, optional |-> o, kind |-> k]

\* TypeDef::merge: ORs fallibility and optionality, unions the kinds
merge(a, b) ==
    TypeDef(a.fallible \/ b.fallible, a.optional \/ b.optional, a.kind \cup b.kind)

\* TypeDef::fallible_unless: stays infallible only for a kind set of exactly {k}
fallible_unless(td, k) ==
    [td EXCEPT !.fallible = td.fallible \/ td.kind # {k}]

\* TypeDef::with_constraint: the result kind is k
with_constraint(td, k) == [td EXCEPT !.kind = {k}]

\* Value::try_boolean: the payload of a Boolean, a value error for any other tag
try_boolean(v) ==
    IF v.kind = "Boolean" THEN Ok(v) ELSE Err("value error")

\* required!(state, object, expr, Value::String(v) => v): the operand is
\* executed, its failure is returned (the ? operator), a non-String value is rejected
required_string(run) ==
    IF run.res # "ok" THEN run
    ELSE IF run.val.kind = "String" THEN run
    ELSE Err("value error")

(***************************************************************************)
(* src/remap/function/ip_subnet.rs                                         *)
(***************************************************************************)
\* the regex /(?P<subnet>\d*) is not anchored: it matches at the first slash,
\* and the group takes the longest run of \d characters after it
RECURSIVE DigitRun(_, _)
DigitRun(s, i) ==
    IF i > Len(s) \/ ~IsRegexDigit(s[i]) THEN <<>>
    ELSE <<s[i]>> \o DigitRun(s, i + 1)

HasSlash(s) == \E i \in 1..Len(s) : s[i] = "/"

FirstSlash(s) ==
    CHOOSE i \in 1..Len(s) : s[i] = "/" /\ \A j \in 1..(i - 1) : s[j] # "/"

\* fn parse_subnet(subnet: &str) -> Result<u32>; the unwrap() of the parse
\* panics when the captured text is not a u32
parse_subnet(subnet) ==
    IF ~HasSlash(subnet)
    THEN [res |-> "err", val |-> U32(0, 0), msg |-> "is not a valid subnet"]
    ELSE LET n == ParseU32(DigitRun(subnet, FirstSlash(subnet) + 1))
         IN IF n.ok THEN [res |-> "ok", val |-> n.val, msg |-> ""]
            ELSE [res |-> "panic", val |-> U32(0, 0),
                  msg |-> "called Result::unwrap() on an Err value"]

\* slip: the decrement is left out
MaskCastNoDecrement(bits) == Pow2(8 - bits) % 65536

\* 2u16.pow(8 - bits) - 1, the u16 that the cast to u8 then narrows
MaskCast(bits) == (Pow2(8 - bits) % 65536) - 1

\* slip: the low bits of the byte are set instead of the high bits
MaskByteLowBits(bits) == Pow2(bits) - 1

\* let byte = 255 - (2u16.pow(8 - bits) - 1) as u8;
MaskByte(bits) == 255 - (MaskCast(bits) % 256)

\* the first loop of get_mask_bits; lossy records a narrowing that dropped bits
RECURSIVE MaskLoop(_, _, _)
MaskLoop(subnet_bits, mask, lossy) ==
    IF subnet_bits > 0
    THEN LET bits == Min(subnet_bits, 8)
         IN MaskLoop(subnet_bits - bits, Append(mask, MaskByte(bits)),
                     lossy \/ MaskCast(bits) > 255)
    ELSE [mask |-> mask, lossy |-> lossy]

\* the second loop of get_mask_bits: zero bytes up to the length bytes
PadMask(mask, bytes) ==
    IF Len(mask) < bytes THEN mask \o Zeros(bytes - Len(mask)) ELSE mask

\* fn get_mask_bits(mut subnet_bits: u32, bytes: usize) -> Vec<u8>
get_mask_bits(subnet_bits, bytes) ==
    PadMask(MaskLoop(subnet_bits, <<>>, FALSE).mask, bytes)

\* fn ipv4_addr(vec: Vec<u8>) -> IpAddr
ipv4_addr(vec) == IpV4(<<vec[1], vec[2], vec[3], vec[4]>>)

\* fn ipv6_addr(vec: Vec<u8>) -> IpAddr
ipv6_addr(vec) == IpV6([i \in 1..16 |-> vec[i]])

\* u32::from(Ipv4Addr) and Ipv4Addr::from(u32): big-endian octets
U32OfOctets(o) == U32(o[1] * 256 + o[2], o[3] * 256 + o[4])

OctetsOfU32(x) == <<x.hi \div 256, x.hi % 256, x.lo \div 256, x.lo % 256>>

\* Ipv6Addr::from([u16; 8])
OctetsOfSegments(segs) ==
    [i \in 1..16 |-> IF i % 2 = 1 THEN segs[(i + 1) \div 2] \div 256
                     ELSE segs[i \div 2] % 256]

\* fn mask_ips(ip: IpAddr, mask: IpAddr) -> Result<IpAddr>
mask_ips(ip, mask) ==
    IF ip.fam = 4 /\ mask.fam = 4
    THEN [ok |-> TRUE, msg |-> "",
          ip |-> IpV4(OctetsOfU32(U32And(U32OfOctets(ip.oct), U32OfOctets(mask.oct))))]
    ELSE IF ip.fam = 6 /\ mask.fam = 6
    THEN [ok |-> TRUE, msg |-> "",
          ip |-> IpV6(OctetsOfSegments(
                     [i \in 1..8 |-> BitAnd(Segments(ip.oct)[i], Segments(mask.oct)[i], 16)]))]
    ELSE IF ip.fam = 6
    THEN [ok |-> FALSE, ip |-> NoAddr,
          msg |-> "attempting to mask an ipv6 address with an ipv4 mask"]
    ELSE [ok |-> FALSE, ip |-> NoAddr,
          msg |-> "attempting to mask an ipv4 address with an ipv6 mask"]

\* Ok(Value::from(mask_ips(value, mask)?.to_string()))
MaskedValue(value, mask) ==
    LET m == mask_ips(value, mask)
    IN IF m.ok THEN Ok(VString(FormatIp(m.ip))) ELSE Err(m.msg)

\* execute from the test mask.starts_with("/") on: the mask of the
\* specifier, applied to the parsed address
ApplySubnet(value, mask) ==
    IF StartsWith(mask, <<"/">>)
    THEN LET subnet == parse_subnet(mask)
         IN IF subnet.res = "panic" THEN Panic(subnet.msg)
            ELSE IF subnet.res = "err" THEN Err(subnet.msg)
            ELSE IF value.fam = 4
            THEN IF U32Gt(subnet.val, 32)
                 THEN Err("subnet cannot be greater than 32 for ipv4 addresses")
                 ELSE MaskedValue(value, ipv4_addr(get_mask_bits(subnet.val.lo, 4)))
            ELSE IF U32Gt(subnet.val, 128)
                 THEN Err("subnet cannot be greater than 128 for ipv6 addresses")
                 ELSE MaskedValue(value, ipv6_addr(get_mask_bits(subnet.val.lo, 16)))
    ELSE LET m == ParseIp(mask)
         IN IF m.ok THEN MaskedValue(value, m.ip) ELSE Err("unable to parse mask")

\* slip: both operands are executed before the address is parsed
IpSubnetFn_execute_eager(value, subnet) ==
    LET v == required_string(value)
    IN IF v.res # "ok" THEN [result |-> v, trace |-> <<"value">>]
       ELSE LET m == required_string(subnet)
            IN IF m.res # "ok"
               THEN [result |-> m, trace |-> <<"value", "subnet">>]
               ELSE LET a == ParseIp(FromUtf8Lossy(v.val.s))
                    IN IF ~a.ok
                       THEN [result |-> Err("unable to parse IP address"),
                             trace |-> <<"value", "subnet">>]
                       ELSE [result |-> ApplySubnet(a.ip, FromUtf8Lossy(m.val.s)),
                             trace |-> <<"value", "subnet">>]

\* IpSubnetFn::execute on the results of executing its two operands; trace
\* lists the operands in the order in which they were executed
IpSubnetFn_execute(value, subnet) ==
    LET v == required_string(value)
    IN IF v.res # "ok" THEN [result |-> v, trace |-> <<"value">>]
       ELSE LET a == ParseIp(FromUtf8Lossy(v.val.s))
            IN IF ~a.ok
               THEN [result |-> Err("unable to parse IP address"), trace |-> <<"value">>]
               ELSE LET m == required_string(subnet)
                    IN IF m.res # "ok"
                       THEN [result |-> m, trace |-> <<"value", "subnet">>]
                       ELSE [result |-> ApplySubnet(a.ip, FromUtf8Lossy(m.val.s)),
                             trace |-> <<"value", "subnet">>]

\* slip: fallible_unless is applied to the value operand only
IpSubnetFn_type_def_value_only(value, subnet) ==
    with_constraint(merge(fallible_unless(value, "String"), subnet), "String")

\* IpSubnetFn::type_def on the TypeDefs of its two operands
IpSubnetFn_type_def(value, subnet) ==
    with_constraint(merge(fallible_unless(value, "String"),
                          fallible_unless(subnet, "String")),
                    "String")

(***************************************************************************)
(* lib/remap-lang/src/expression/not.rs                                    *)
(***************************************************************************)
\* slip: the Boolean is returned without the negation
Not_execute_unnegated(expression) ==
    IF expression.res # "ok" THEN expression
    ELSE LET boolean == try_boolean(expression.val)
         IN IF boolean.res # "ok" THEN boolean
            ELSE Ok(VBoolean(boolean.val.b))

\* Not::execute on the result of executing its operand
Not_execute(expression) ==
    IF expression.res # "ok" THEN expression
    ELSE LET boolean == try_boolean(expression.val)
         IN IF boolean.res # "ok" THEN boolean
            ELSE Ok(VBoolean(~boolean.val.b))

\* Not::type_def
Not_type_def == TypeDef(TRUE, TRUE, {"Boolean"})

(***************************************************************************)
(* src/remap/function/only_fields.rs                                       *)
(* A path is a sequence of segments, a segment a sequence of characters;   *)
(* the record is the set of its populated (leaf) paths.                    *)
(***************************************************************************)
\* Path::as_string: the segments joined by a dot
as_string(path) == Join(path, ".")

\* Object::paths: the strings of all populated paths
object_paths(obj) == {as_string(p) : p \in obj}

IsPrefix(p, k) == Len(p) <= Len(k) /\ SubSeq(k, 1, Len(p)) = p

\* Object::remove(path, true): the path and everything below it go
object_remove(obj, str) ==
    {k \in obj : ~\E p \in obj : as_string(p) = str /\ IsPrefix(p, k)}

\* the closure of the filter: no retained path string is a prefix of k
NotRetained(k, strs) == ~\E i \in 1..Len(strs) : StartsWith(k, strs[i])

\* slip: find in place of filter, so only one path is handed to for_each
DoomedFirst(obj, paths) ==
    LET strs == [i \in 1..Len(paths) |-> as_string(paths[i])]
        all == {k \in object_paths(obj) : NotRetained(k, strs)}
    IN IF all = {} THEN {} ELSE {CHOOSE k \in all : TRUE}

\* the strings handed to for_each
Doomed(obj, paths) ==
    LET strs == [i \in 1..Len(paths) |-> as_string(paths[i])]
    IN {k \in object_paths(obj) : NotRetained(k, strs)}

\* .for_each(|path| object.remove(&path, true)), in some order
RECURSIVE RemoveEach(_, _)
RemoveEach(obj, doomed) ==
    IF doomed = {} THEN obj
    ELSE LET d == CHOOSE x \in doomed : TRUE
         IN RemoveEach(object_remove(obj, d), doomed \ {d})

\* OnlyFieldsFn::execute: the record after the removals, and the result
OnlyFieldsFn_execute(obj, paths) ==
    [object |-> RemoveEach(obj, Doomed(obj, paths)), result |-> Ok(VNull)]

\* OnlyFieldsFn::type_def
OnlyFieldsFn_type_def == TypeDef(FALSE, FALSE, {"Null"})

(***************************************************************************)
(* Inputs.  An operand is [def, run]: the TypeDef its type_def returns and *)
(* the result its execute returns, the second consistent with the first.   *)
(***************************************************************************)
Operand(d, r) == [def |-> d, run |-> r]

\* Literal::from(v): infallible, of exactly the kind of v
Literal(v) == Operand(TypeDef(FALSE, FALSE, {v.kind}), Ok(v))

AllTypeDefs ==
    {TypeDef(f, o, k) : f \in BOOLEAN, o \in BOOLEAN, k \in SUBSET Kinds}

\* the results an operand of TypeDef d may produce, str standing for its Strings
ConsistentRuns(d, str) ==
    (IF "String" \in d.kind THEN {Ok(VString(str))} ELSE {})
    \cup (IF "Boolean" \in d.kind THEN {Ok(VBoolean(TRUE))} ELSE {})
    \cup (IF "Null" \in d.kind \/ d.optional THEN {Ok(VNull)} ELSE {})
    \cup (IF d.fallible THEN {Err("operand failed")} ELSE {})

\* expressions of every TypeDef, each with every result consistent with it
Dynamic(str) ==
    UNION {{Operand(d, r) : r \in ConsistentRuns(d, str)} : d \in AllTypeDefs}

Ipv4Octets ==
    {<<192, 168, 10, 23>>, <<192, 168, 0, 1>>, <<255, 255, 255, 255>>,
     <<10, 77, 129, 254>>, <<0, 0, 0, 0>>}

Ipv6Octets ==
    {<<36, 4, 104, 0, 64, 3, 12, 2, 0, 0, 0, 0, 0, 0, 0, 100>>,
     [i \in 1..16 |-> 255],
     <<32, 1, 13, 184, 0, 0, 0, 0, 0, 0, 255, 0, 0, 66, 131, 41>>,
     <<0, 0, 0, 0, 0, 0, 0, 0, 0, 0, 0, 0, 0, 0, 0, 1>>,
     <<254, 128, 0, 0, 0, 0, 0, 0, 171, 205, 18, 52, 86, 120, 154, 188>>}

\* the address of the tests: 2404:6800:4003:c02::64
TestIpv6 ==
    <<"2", "4", "0", "4", ":", "6", "8", "0", "0", ":", "4", "0", "0", "3", ":",
      "c", "0", "2", ":", ":", "6", "4">>

MalformedAddresses ==
    {<<>>, <<"1", ".", "2", ".", "3">>, <<"1", ".", "2", ".", "3", ".", "2", "5", "6">>,
     <<"l", "o", "c", "a", "l", "h", "o", "s", "t">>,
     <<"1", ".", "2", ".", "3", ".", "0xFF">>, <<"1", ":", ":", "2", ":", ":", "3">>}

AddressStrings ==
    {FormatIpv4(o) : o \in Ipv4Octets} \cup {FormatIpv6(o) : o \in Ipv6Octets}
    \cup {TestIpv6}

\* the specifier /n
PrefixSpec(n) == <<"/">> \o DecStr(n)

MalformedPrefixes ==
    {<<"/">>, <<"/", "x">>, <<"/", "1", "2", "x">>, <<"/", "+", "5">>,
     <<"/", ArabicThree>>, <<"/", "1", "6", "/", "8">>,
     <<"/", "4", "2", "9", "4", "9", "6", "7", "2", "9", "5">>,
     <<"/", "4", "2", "9", "4", "9", "6", "7", "2", "9", "6">>,
     <<"/", "9", "9", "9", "9", "9", "9", "9", "9", "9", "9", "9">>}

LiteralMasks ==
    {FormatIpv4(o) : o \in {<<255, 255, 0, 0>>, <<255, 240, 0, 0>>, <<255, 0, 255, 0>>,
                            <<255, 255, 255, 255>>, <<0, 0, 0, 0>>}}
    \cup {FormatIpv6(o) : o \in {[i \in 1..16 |-> IF i = 1 THEN 255 ELSE 0],
                                 [i \in 1..16 |-> IF i <= 4 THEN 255 ELSE 0],
                                 [i \in 1..16 |-> 0]}}

MalformedMasks ==
    {<<>>, <<"2", "5", "5", ".", "2", "5", "5">>, <<"1", "6">>,
     <<"1", "/", "8">>, <<"f", "f", "0", "0", ":", ":", "0xFF">>}

ValueOperands ==
    {Literal(VString(a)) : a \in AddressStrings \cup MalformedAddresses}
    \cup {Literal(VBoolean(TRUE)), Literal(VNull)}
    \cup Dynamic(FormatIpv4(<<192, 168, 10, 23>>))

SubnetOperands ==
    {Literal(VString(PrefixSpec(n))) : n \in 0..MaxPrefix}
    \cup {Literal(VString(m)) : m \in MalformedPrefixes \cup LiteralMasks \cup MalformedMasks}
    \cup {Literal(VBoolean(TRUE)), Literal(VNull)}
    \cup Dynamic(PrefixSpec(16))

\* operands of Not: literals, dynamic expressions, and Not nodes over those
BaseOperands ==
    {Literal(VBoolean(x)) : x \in BOOLEAN}
    \cup {Literal(VNull), Literal(VString(<<"n", "o", "t">>)), Literal(VString(<<>>))}
    \cup Dynamic(<<"t", "r", "u", "e">>)

NotOperands ==
    BaseOperands \cup {Operand(Not_type_def, Not_execute(o.run)) : o \in BaseOperands}

\* field names and the paths of the records
Foo == <<"f", "o", "o">>

Bar == <<"b", "a", "r">>

Baz == <<"b", "a", "z">>

Qux == <<"q", "u", "x">>

Bazooka == <<"b", "a", "z", "o", "o", "k", "a">>

AllPaths ==
    {<<Foo>>, <<Bar>>, <<Bar, Baz>>, <<Bar, Qux>>, <<Bar, Bazooka>>, <<Bar, Baz, Foo>>}

\* a record is a tree: no populated leaf lies below another
IsRecord(obj) == \A p \in obj, k \in obj : IsPrefix(p, k) => p = k

Records == {obj \in SUBSET AllPaths : IsRecord(obj)}

RECURSIVE SeqsUpTo(_, _)
SeqsUpTo(S, n) ==
    IF n = 0 THEN {<<>>}
    ELSE SeqsUpTo(S, n - 1) \cup
         {Append(q, x) : q \in {r \in SeqsUpTo(S, n - 1) : Len(r) = n - 1}, x \in S}

\* compile takes one required path and up to MaxPaths - 1 optional ones
PathLists == {q \in SeqsUpTo(AllPaths, MaxPaths) : Len(q) >= 1}

(***************************************************************************)
(* The state machine: a node is compiled (type_def) and then executed on a *)
(* record; get_mask_bits is also called on its own, as its unit test does. *)
(***************************************************************************)
VARIABLES
    node,         \* "Not", "IpSubnetFn", "OnlyFieldsFn" or "get_mask_bits"
    pc,           \* "ready", "compiled", "done", or "aborted" after a panic
    expression,   \* Not.expression
    value,        \* IpSubnetFn.value
    subnet,       \* IpSubnetFn.subnet
    paths,        \* OnlyFieldsFn.paths
    object,       \* the record: the set of its populated paths
    removed,      \* the paths removed from the record so far
    runs,         \* number of execute calls so far
    subnet_bits,  \* first argument of get_mask_bits
    bytes,        \* second argument of get_mask_bits
    def,          \* the TypeDef returned by type_def
    out,          \* the result of the last execute
    trace,        \* the operands executed by the last execute, in order
    mask          \* the result of get_mask_bits

vars == <<node, pc, expression, value, subnet, paths, object, removed, runs,
          subnet_bits, bytes, def, out, trace, mask>>

NoOperand == Literal(VNull)

NoDef == TypeDef(FALSE, FALSE, {})

NoOut == [res |-> "none", val |-> VNull, msg |-> ""]

NoMask == [mask |-> <<>>, lossy |-> FALSE]

InitNot ==
    /\ node = "Not"
    /\ expression \in NotOperands
    /\ value = NoOperand /\ subnet = NoOperand
    /\ paths = <<>> /\ object = {}
    /\ subnet_bits = 0 /\ bytes = 0

InitIpSubnet ==
    /\ node = "IpSubnetFn"
    /\ value \in ValueOperands
    /\ subnet \in SubnetOperands
    /\ expression = NoOperand
    /\ paths = <<>> /\ object = {}
    /\ subnet_bits = 0 /\ bytes = 0

InitOnlyFields ==
    /\ node = "OnlyFieldsFn"
    /\ paths \in PathLists
    /\ object \in Records
    /\ expression = NoOperand /\ value = NoOperand /\ subnet = NoOperand
    /\ subnet_bits = 0 /\ bytes = 0

InitGetMaskBits ==
    /\ node = "get_mask_bits"
    /\ bytes \in {4, 16}
    /\ subnet_bits \in 0..(8 * bytes)
    /\ expression = NoOperand /\ value = NoOperand /\ subnet = NoOperand
    /\ paths = <<>> /\ object = {}

Init ==
    /\ InitNot \/ InitIpSubnet \/ InitOnlyFields \/ InitGetMaskBits
    /\ pc = "ready"
    /\ removed = {}
    /\ runs = 0
    /\ def = NoDef
    /\ out = NoOut
    /\ trace = <<>>
    /\ mask = NoMask

\* a panic unwinds the thread: the call returns nothing
After(result) == IF result.res = "panic" THEN "aborted" ELSE "done"

TypeDefNot ==
    /\ node = "Not" /\ pc = "ready"
    /\ def' = Not_type_def
    /\ pc' = "compiled"
    /\ UNCHANGED <<node, expression, value, subnet, paths, object, removed, runs,
                   subnet_bits, bytes, out, trace, mask>>

TypeDefIpSubnet ==
    /\ node = "IpSubnetFn" /\ pc = "ready"
    /\ def' = IpSubnetFn_type_def(value.def, subnet.def)
    /\ pc' = "compiled"
    /\ UNCHANGED <<node, expression, value, subnet, paths, object, removed, runs,
                   subnet_bits, bytes, out, trace, mask>>

TypeDefOnlyFields ==
    /\ node = "OnlyFieldsFn" /\ pc = "ready"
    /\ def' = OnlyFieldsFn_type_def
    /\ pc' = "compiled"
    /\ UNCHANGED <<node, expression, value, subnet, paths, object, removed, runs,
                   subnet_bits, bytes, out, trace, mask>>

ExecuteNot ==
    /\ node = "Not" /\ pc = "compiled"
    /\ out' = Not_execute(expression.run)
    /\ trace' = <<"expression">>
    /\ runs' = runs + 1
    /\ pc' = After(out')
    /\ UNCHANGED <<node, expression, value, subnet, paths, object, removed,
                   subnet_bits, bytes, def, mask>>

ExecuteIpSubnet ==
    /\ node = "IpSubnetFn" /\ pc = "compiled"
    /\ LET r == IpSubnetFn_execute(value.run, subnet.run)
       IN /\ out' = r.result
          /\ trace' = r.trace
    /\ runs' = runs + 1
    /\ pc' = After(out')
    /\ UNCHANGED <<node, expression, value, subnet, paths, object, removed,
                   subnet_bits, bytes, def, mask>>

\* the compiled node is executed again on the record it left behind
ExecuteOnlyFields ==
    /\ node = "OnlyFieldsFn" /\ pc \in {"compiled", "done"}
    /\ runs < MaxRuns
    /\ LET r == OnlyFieldsFn_execute(object, paths)
       IN /\ object' = r.object
          /\ removed' = removed \cup (object \ r.object)
          /\ out' = r.result
    /\ trace' = <<>>
    /\ runs' = runs + 1
    /\ pc' = After(out')
    /\ UNCHANGED <<node, expression, value, subnet, paths,
                   subnet_bits, bytes, def, mask>>

CallGetMaskBits ==
    /\ node = "get_mask_bits" /\ pc = "ready"
    /\ mask' = [mask |-> get_mask_bits(subnet_bits, bytes),
                lossy |-> MaskLoop(subnet_bits, <<>>, FALSE).lossy]
    /\ pc' = "done"
    /\ UNCHANGED <<node, expression, value, subnet, paths, object, removed, runs,
                   subnet_bits, bytes, def, out, trace>>

Next ==
    \/ TypeDefNot
    \/ TypeDefIpSubnet
    \/ TypeDefOnlyFields
    \/ ExecuteNot
    \/ ExecuteIpSubnet
    \/ ExecuteOnlyFields
    \/ CallGetMaskBits

Spec == Init /\ [][Next]_vars

(***************************************************************************)
(* Properties.                                                             *)
(***************************************************************************)
Executed == pc \in {"done", "aborted"}

\* the value operand produced a String that parses as an IP address
ValueParses ==
    /\ value.run.res = "ok" /\ value.run.val.kind = "String"
    /\ ParseIp(FromUtf8Lossy(value.run.val.s)).ok

ValueIp == ParseIp(FromUtf8Lossy(value.run.val.s)).ip

SubnetIsString == subnet.run.res = "ok" /\ subnet.run.val.kind = "String"

SubnetText == FromUtf8Lossy(subnet.run.val.s)

\* bit width of an address family
Width(fam) == IF fam = 4 THEN 32 ELSE 128

\* C1: whenever type_def returned fallible = false, execute returns no failure
\* on any operand results consistent with the operand TypeDefs (for Not,
\* IpSubnetFn and OnlyFieldsFn alike), and OnlyFieldsFn.execute returns Ok(Null).
C1_StaticTypeSound ==
    /\ (node \in {"Not", "IpSubnetFn", "OnlyFieldsFn"} /\ Executed /\ ~def.fallible)
           => out.res = "ok"
    /\ (Executed /\ node = "OnlyFieldsFn") => out = Ok(VNull)

\* segment-wise: k is p or lies below p
IsDescendantOrSelf(k, p) == IsPrefix(p, k)

\* C2: after OnlyFieldsFn.execute the record holds exactly the initially present
\* paths that are a descendant-or-self of some retained path.
C2_OnlyDescendantsRemain ==
    (node = "OnlyFieldsFn" /\ runs >= 1) =>
        object = {k \in object \cup removed :
                     \E i \in 1..Len(paths) : IsDescendantOrSelf(k, paths[i])}

\* the text is a slash followed by one or more ASCII digits
IsPrefixForm(s) ==
    Len(s) >= 2 /\ s[1] = "/" /\ \A i \in 2..Len(s) : IsAsciiDigit(s[i])

RECURSIVE StripZeros(_)
StripZeros(d) == IF Len(d) > 1 /\ d[1] = "0" THEN StripZeros(Tail(d)) ELSE d

\* the number written by the digits d exceeds n, for n below 1000
NumeralExceeds(d, n) ==
    LET z == StripZeros(d) IN Len(z) > 3 \/ DecVal(z) > n

\* C3: with a parsed address, execute returns a failure when a literal mask is of
\* the other IP family and when the specifier is /N with N above the bit width
\* of the address family; for /N within the bit width it returns a value.
C3_FailsOnFamilyAndRange ==
    (node = "IpSubnetFn" /\ Executed /\ ValueParses /\ SubnetIsString) =>
        /\ (~StartsWith(SubnetText, <<"/">>) /\ ParseIp(SubnetText).ok
                /\ ParseIp(SubnetText).ip.fam # ValueIp.fam) => out.res = "err"
        /\ IsPrefixForm(SubnetText) =>
               IF NumeralExceeds(Tail(SubnetText), Width(ValueIp.fam))
               THEN out.res = "err"
               ELSE out.res = "ok"

\* C4: for every pair of String operand values IpSubnetFn.execute returns a
\* value or a failure; it never panics.
C4_NeverPanics ==
    (node = "IpSubnetFn" /\ runs >= 1
        /\ value.run.res = "ok" /\ value.run.val.kind = "String" /\ SubnetIsString)
    => (pc = "done" /\ out.res \in {"ok", "err"})

\* octet i of the address whose leftmost n bits are 1 and whose other bits are 0
PrefixOctet(n, i) ==
    IF 8 * i <= n THEN 255
    ELSE IF 8 * (i - 1) >= n THEN 0
    ELSE 256 - Pow2(8 * i - n)

\* the literal mask text for the prefix length n of a family
LiteralMask(fam, n) ==
    FormatIp([fam |-> fam, oct |-> [i \in 1..(Width(fam) \div 8) |-> PrefixOctet(n, i)]])

\* C5: for an address A and N within the bit width of its family, execute with
\* the specifier /N returns the same string as execute with the literal mask
\* whose leftmost N bits are 1.
C5_PrefixEqualsLiteralMask ==
    (node = "IpSubnetFn" /\ Executed /\ ValueParses) =>
        \A n \in 0..Width(ValueIp.fam) :
            subnet.run = Ok(VString(PrefixSpec(n))) =>
                /\ out.res = "ok"
                /\ out = IpSubnetFn_execute(value.run,
                                            Ok(VString(LiteralMask(ValueIp.fam, n)))).result

C5_Witness ==
    /\ node = "IpSubnetFn" /\ pc = "done" /\ ValueParses
    /\ ValueIp.fam = 6
    /\ subnet.run = Ok(VString(PrefixSpec(27)))
    /\ out.res = "ok"
    /\ out.val.s # FromUtf8Lossy(value.run.val.s)

\* C6: for B in {4, 16} and 0 <= N <= 8 * B, get_mask_bits(N, B) returns exactly
\* B bytes: 255 for i < N div 8, 256 - 2^(8 - N mod 8) at i = N div 8 when
\* N mod 8 > 0, 0 otherwise (i from 0), and no narrowing to 8 bits lost a bit.
C6_MaskBits ==
    (node = "get_mask_bits" /\ pc = "done") =>
        /\ Len(mask.mask) = bytes
        /\ \A i \in 0..(bytes - 1) :
               mask.mask[i + 1] =
                   IF i < subnet_bits \div 8 THEN 255
                   ELSE IF i = subnet_bits \div 8 /\ subnet_bits % 8 > 0
                   THEN 256 - Pow2(8 - (subnet_bits % 8))
                   ELSE 0
        /\ ~mask.lossy

C6_Witness ==
    /\ node = "get_mask_bits" /\ pc = "done"
    /\ subnet_bits = 9 /\ bytes = 4
    /\ mask.mask = <<255, 128, 0, 0>>

\* C7: Not.execute returns the negation of a Boolean operand value, a value
\* error for an operand value of any other kind, and the failure of the operand
\* when the operand fails.
C7_NotNegates ==
    (node = "Not" /\ Executed) =>
        /\ (expression.run.res = "ok" /\ expression.run.val.kind = "Boolean")
               => out = Ok(VBoolean(~expression.run.val.b))
        /\ (expression.run.res = "ok" /\ expression.run.val.kind # "Boolean")
               => (out.res = "err" /\ out.msg = "value error")
        /\ expression.run.res = "err" => out = expression.run

C7_Witness ==
    /\ node = "Not" /\ pc = "done"
    /\ expression.run = Ok(VBoolean(TRUE))
    /\ out = Ok(VBoolean(FALSE))

\* C8: executing OnlyFieldsFn again with the same retained paths on the record
\* left by an earlier execution leaves the record unchanged and returns Null.
C8_Idempotent ==
    [][(node = "OnlyFieldsFn" /\ runs >= 1 /\ runs' = runs + 1)
          => (object' = object /\ out' = Ok(VNull))]_vars

C8_Witness ==
    /\ node = "OnlyFieldsFn" /\ runs = 2
    /\ removed # {} /\ object # {}

\* C9: IpSubnetFn.type_def has kind String; it is fallible exactly when an
\* operand TypeDef is fallible or has a kind other than exactly String; and
\* swapping the operand TypeDefs gives the same TypeDef.
C9_TypeDef ==
    (node = "IpSubnetFn" /\ pc # "ready") =>
        /\ def.kind = {"String"}
        /\ def.fallible <=> (\/ value.def.fallible \/ subnet.def.fallible
                             \/ value.def.kind # {"String"}
                             \/ subnet.def.kind # {"String"})
        /\ def = IpSubnetFn_type_def(subnet.def, value.def)

C9_Witness ==
    /\ node = "IpSubnetFn" /\ pc = "compiled"
    /\ value.def = TypeDef(FALSE, FALSE, {"String"})
    /\ subnet.def = TypeDef(FALSE, FALSE, {"Boolean"})
    /\ def.fallible

\* evaluating the value operand fails, yields no String, or yields no address
ValueRejected == ~ValueParses

\* C10: execute evaluates the value operand first and each operand at most
\* once; when the value operand fails, is no String or is no IP address,
\* execute returns a failure and the subnet operand is never evaluated.
C10_OperandOrder ==
    (node = "IpSubnetFn" /\ Executed) =>
        /\ trace \in {<<"value">>, <<"value", "subnet">>}
        /\ ValueRejected =>
               /\ trace = <<"value">>
               /\ out.res = "err"
               /\ value.run.res = "err" => out = value.run

C10_Witness ==
    /\ node = "IpSubnetFn" /\ pc = "done"
    /\ value.run = Ok(VString(<<"l", "o", "c", "a", "l", "h", "o", "s", "t">>))
    /\ subnet.run.res = "err"
    /\ trace = <<"value">>
    /\ out.res = "err"

====
